---- MODULE Spec2Model ----
(***************************************************************************)
(* Model of the puzzleloginserver login service (package loginserver).     *)
(* The repository holds two revisions of the service:                      *)
(*   "v1"  src/loginserver/loginserver.go                                  *)
(*   "v2"  src/unnamed/part_001 (logger added, empty-login checks, login   *)
(*         lookup in ChangeLogin, filtered count in ListUsers)             *)
(* The state is the users table behind the gorm handle; every handler is   *)
(* one action that runs the whole handler, store calls included.           *)
(* Spec runs the calls one after the other; SpecConc runs two overlapping   *)
(* calls with one store call per step.                                     *)
(* model.User.CreatedAt is not carried: no handler reads it, it is only    *)
(* copied into pb.User.RegistredAt.                                        *)
(***************************************************************************)
EXTENDS Integers, Sequences, FiniteSets, TLC

\* ---------------------------------------------------------------- bounds
MaxId == 2          \* ids the store sequence hands out: 1..MaxId
NumLogins == 3      \* login strings the callers use: the first NumLogins of LoginTable
MaxDigest == 1      \* digests are 0..MaxDigest, 0 is the empty string

\* Strings are sequences of characters; 1 is "a", 2 is "b".
LoginTable == << <<>>, <<1>>, <<1, 2>>, <<2>>, <<2, 1>>, <<1, 1>>, <<2, 2>> >>

Logins == {LoginTable[i] : i \in 1..NumLogins}
Ids == 1..MaxId
Digests == 0..MaxDigest
Revisions == {"v1", "v2"}

\* ------------------------------------------------------------ data model
\* model.User: ID, Login, Password (the zero value of the struct)
ZeroUser == [ID |-> 0, Login |-> <<>>, Password |-> 0]

\* pb.Response and the error result of a handler
EmptyResponse == [Success |-> FALSE, Id |-> 0, Err |-> FALSE]
errInternal == [Success |-> FALSE, Id |-> 0, Err |-> TRUE]
SuccessResponse(id) == [Success |-> TRUE, Id |-> id, Err |-> FALSE]

\* pb.Users: &pb.Users{}, the error result, and a filled answer
EmptyUsers == [List |-> <<>>, Total |-> 0, Err |-> FALSE]
errInternalUsers == [List |-> <<>>, Total |-> 0, Err |-> TRUE]
UsersResponse(list, total) == [List |-> list, Total |-> total, Err |-> FALSE]

VARIABLES
    revision,   \* which revision of the service is deployed
    users,      \* the rows of the users table: set of model.User
    seq,        \* next id the store assigns on Create
    pre,        \* users before the last call
    last,       \* the last call: operation, request, injected fault, response
    prev,       \* the call before the last one, when last is its follow-up
    prepre,     \* users before the call prev
    procs       \* overlapping calls: for each caller, the call in progress

vars == <<revision, users, seq, pre, last, prev, prepre, procs>>

NoCall == [op |-> "none", Login |-> <<>>, Salted |-> 0, UserId |-> 0,
           NewLogin |-> <<>>, NewSalted |-> 0,
           Ids |-> {}, Start |-> 0, End |-> 0, Filter |-> <<>>,
           fault |-> 0, calls |-> 0, resp |-> EmptyResponse]

\* Two callers whose calls may overlap.
Procs == {"p1", "p2"}

\* A call in progress: its request, where the handler stands (pc), the user
\* struct of the handler, its response once done, and for the write of a
\* ChangeLogin or ChangePassword whether it hit a row that was still there
\* with the digest the lookup saw.
Idle == [op |-> "none", pc |-> "idle", Login |-> <<>>, Salted |-> 0, UserId |-> 0,
         NewLogin |-> <<>>, NewSalted |-> 0, user |-> ZeroUser,
         wrote |-> FALSE, hit |-> FALSE, resp |-> EmptyResponse]

\* ------------------------------------------------------------ the store
\* Result of a store call: err is a technical error, found distinguishes
\* gorm.ErrRecordNotFound, user is the destination struct after the call.
StoreError(dest) == [err |-> TRUE, found |-> FALSE, user |-> dest]

MinId(rows) == CHOOSE u \in rows : \A v \in rows : u.ID <= v.ID

\* db.First(&dest, cond): first row by primary key among those satisfying
\* cond; gorm adds "id = dest.ID" to the query when dest already carries a
\* non-zero primary key. dest is left as it was when nothing is found.
First(rows, dest, matching, fails) ==
    IF fails THEN StoreError(dest)
    ELSE LET m == {u \in matching : dest.ID = 0 \/ u.ID = dest.ID}
         IN IF m = {} THEN [err |-> FALSE, found |-> FALSE, user |-> dest]
            ELSE [err |-> FALSE, found |-> TRUE, user |-> MinId(m)]

FirstByLogin(rows, dest, login, fails) ==
    First(rows, dest, {u \in rows : u.Login = login}, fails)

FirstById(rows, dest, id, fails) ==
    First(rows, dest, {u \in rows : u.ID = id}, fails)

\* A schema without the unique index on login.
LoginTaken_NoIndex(rows, id, login) == FALSE

\* users(id PK, login UNIQUE, ...): the store rejects a write that would
\* give two rows the same login.
LoginTaken(rows, id, login) == \E u \in rows : u.ID # id /\ u.Login = login

\* db.Create(&user): the store assigns the id
Create(rows, nid, login, password, fails) ==
    IF fails \/ LoginTaken(rows, nid, login)
    THEN [err |-> TRUE, rows |-> rows, seq |-> nid, user |-> ZeroUser]
    ELSE LET u == [ID |-> nid, Login |-> login, Password |-> password]
         IN [err |-> FALSE, rows |-> rows \cup {u}, seq |-> nid + 1, user |-> u]

\* db.Model(&user).Updates(map{"login":..., "password":...}): UPDATE ... WHERE id = user.ID
Updates(rows, user, login, password, fails) ==
    IF fails \/ ((\E u \in rows : u.ID = user.ID) /\ LoginTaken(rows, user.ID, login))
    THEN [err |-> TRUE, rows |-> rows]
    ELSE [err |-> FALSE,
          rows |-> {IF u.ID = user.ID
                    THEN [u EXCEPT !.Login = login, !.Password = password]
                    ELSE u : u \in rows}]

\* The update issued without its WHERE clause.
Update_AllRows(rows, user, password, fails) ==
    IF fails THEN [err |-> TRUE, rows |-> rows]
    ELSE [err |-> FALSE, rows |-> {[u EXCEPT !.Password = password] : u \in rows}]

\* db.Model(&user).Update("password", ...)
Update(rows, user, password, fails) ==
    IF fails THEN [err |-> TRUE, rows |-> rows]
    ELSE [err |-> FALSE,
          rows |-> {IF u.ID = user.ID THEN [u EXCEPT !.Password = password] ELSE u
                    : u \in rows}]

\* The delete issued without its condition: every row goes.
DeleteRow_AllRows(rows, id, fails) ==
    IF fails THEN [err |-> TRUE, rows |-> rows]
    ELSE [err |-> FALSE, rows |-> {}]

\* A delete that only marks the row (soft delete): the row stays.
DeleteRow_Soft(rows, id, fails) ==
    IF fails THEN [err |-> TRUE, rows |-> rows]
    ELSE [err |-> FALSE, rows |-> rows]

\* db.Delete(&model.User{}, id)
DeleteRow(rows, id, fails) ==
    IF fails THEN [err |-> TRUE, rows |-> rows]
    ELSE [err |-> FALSE, rows |-> {u \in rows : u.ID # id}]

\* Orders in which a query without ORDER BY may return the rows of a set.
RECURSIVE Arrangements(_)
Arrangements(rows) ==
    IF rows = {} THEN {<<>>}
    ELSE UNION {{<<u>> \o t : t \in Arrangements(rows \ {u})} : u \in rows}

\* The rows "id IN ?" selects; an empty ids selects nothing.
FoundByIds(rows, ids) == {u \in rows : u.ID \in ids}

\* db.Find(&users, "id IN ?", ids): the selected rows in the order the store
\* picks, listed being one arrangement of them.
FindByIds(rows, ids, listed, fails) ==
    IF fails THEN [err |-> TRUE, users |-> <<>>]
    ELSE [err |-> FALSE, users |-> listed]

\* login LIKE '%filter%' (dbclient.BuildLikeFilter): filter occurs in login
Like(login, filter) ==
    \E i \in 0..(Len(login) - Len(filter)) :
        SubSeq(login, i + 1, i + Len(filter)) = filter

\* The rows a ListUsers request is about: all of them without filter
Matching(rows, filter) ==
    IF filter = <<>> THEN rows ELSE {u \in rows : Like(u.Login, filter)}

\* db.Model(&model.User{}).[Where(...)].Count(&total)
Count(matching, fails) ==
    IF fails THEN [err |-> TRUE, total |-> 0]
    ELSE [err |-> FALSE, total |-> Cardinality(matching)]

\* Order("login asc"): strings compare character by character, a prefix
\* comes first.
RECURSIVE LoginLess(_, _)
LoginLess(a, b) ==
    IF b = <<>> THEN FALSE
    ELSE IF a = <<>> THEN TRUE
    ELSE IF Head(a) # Head(b) THEN Head(a) < Head(b)
    ELSE LoginLess(Tail(a), Tail(b))

RECURSIVE OrderByLogin(_)
OrderByLogin(rows) ==
    IF rows = {} THEN <<>>
    ELSE LET u == CHOOSE x \in rows : \A y \in rows : ~LoginLess(y.Login, x.Login)
         IN <<u>> \o OrderByLogin(rows \ {u})

\* dbclient.Paginate(db, start, end): Offset(int(start)).Limit(int(end - start));
\* start and end are uint64, so for end < start the difference wraps and
\* converts to the negative number end - start; gorm writes no LIMIT for a
\* negative limit and no OFFSET for offset 0.
Paginate(sorted, start, end) ==
    LET offset == start
        limit == end - start
        from == IF offset > Len(sorted) THEN Len(sorted) + 1 ELSE offset + 1
        to == IF limit < 0 \/ offset + limit > Len(sorted) THEN Len(sorted)
              ELSE offset + limit
    IN SubSeq(sorted, from, to)

\* The page query without its Order("login asc"): rows come by primary key.
FindPage_NoOrder(matching, start, end, fails) ==
    IF fails THEN [err |-> TRUE, users |-> <<>>]
    ELSE LET byId == CHOOSE t \in Arrangements(matching) :
                         \A i, j \in 1..Len(t) : i < j => t[i].ID < t[j].ID
         IN [err |-> FALSE, users |-> Paginate(byId, start, end)]

\* page.Find(&users[, "login LIKE ?", filter]) on the ordered, windowed query
FindPage(matching, start, end, fails) ==
    IF fails THEN [err |-> TRUE, users |-> <<>>]
    ELSE [err |-> FALSE, users |-> Paginate(OrderByLogin(matching), start, end)]

\* convertUsersFromModel
convertUsersFromModel(list) ==
    [i \in 1..Len(list) |-> [Id |-> list[i].ID, Login |-> list[i].Login]]

\* ------------------------------------------------------------- handlers
\* Outcome of a handler: the response, the table it leaves behind and the
\* number of store calls it issued.
Out(resp, rows, nid, calls) == [resp |-> resp, rows |-> rows, seq |-> nid, calls |-> calls]

\* Verify that forgets to compare the digest.
VerifyOut_NoDigestCheck(rows, nid, login, salted, fault) ==
    LET r == FirstByLogin(rows, ZeroUser, login, fault = 1)
    IN IF r.err THEN Out(errInternal, rows, nid, 1)
       ELSE IF ~r.found THEN Out(EmptyResponse, rows, nid, 1)
       ELSE Out(SuccessResponse(r.user.ID), rows, nid, 1)

\* Verify that answers a wrong digest with the id of the row it found.
VerifyOut_LeaksId(rows, nid, login, salted, fault) ==
    LET r == FirstByLogin(rows, ZeroUser, login, fault = 1)
    IN IF r.err THEN Out(errInternal, rows, nid, 1)
       ELSE IF ~r.found THEN Out(EmptyResponse, rows, nid, 1)
       ELSE IF salted # r.user.Password
            THEN Out([EmptyResponse EXCEPT !.Id = r.user.ID], rows, nid, 1)
       ELSE Out(SuccessResponse(r.user.ID), rows, nid, 1)

\* Verify that repeats the lookup once when it fails.
VerifyOut_Retry(rows, nid, login, salted, fault) ==
    LET r == FirstByLogin(rows, ZeroUser, login, FALSE)
        n == IF fault = 1 THEN 2 ELSE 1
    IN IF ~r.found THEN Out(EmptyResponse, rows, nid, n)
       ELSE IF salted # r.user.Password THEN Out(EmptyResponse, rows, nid, n)
       ELSE Out(SuccessResponse(r.user.ID), rows, nid, n)

\* server.Verify (the same in both revisions)
VerifyOut(rows, nid, login, salted, fault) ==
    LET r == FirstByLogin(rows, ZeroUser, login, fault = 1)
    IN IF r.err THEN Out(errInternal, rows, nid, 1)
       ELSE IF ~r.found THEN Out(EmptyResponse, rows, nid, 1)
       ELSE IF salted # r.user.Password THEN Out(EmptyResponse, rows, nid, 1)
       ELSE Out(SuccessResponse(r.user.ID), rows, nid, 1)

\* Register that creates without looking the login up first.
RegisterV1_NoLookup(rows, nid, login, salted, fault) ==
    LET c == Create(rows, nid, login, salted, fault = 1)
    IN IF c.err THEN Out(errInternal, c.rows, c.seq, 1)
       ELSE Out(SuccessResponse(c.user.ID), c.rows, c.seq, 1)

\* server.Register, revision v1: no check of the empty login
RegisterV1(rows, nid, login, salted, fault) ==
    LET r == FirstByLogin(rows, ZeroUser, login, fault = 1)
    IN IF ~r.err /\ r.found THEN Out(EmptyResponse, rows, nid, 1)
       ELSE IF r.err THEN Out(errInternal, rows, nid, 1)
       ELSE LET c == Create(rows, nid, login, salted, fault = 2)
            IN IF c.err THEN Out(errInternal, c.rows, c.seq, 2)
               ELSE Out(SuccessResponse(c.user.ID), c.rows, c.seq, 2)

\* Register that answers with the id of the struct it looked up, not of the
\* row it created.
RegisterV2_LookupId(rows, nid, login, salted, fault) ==
    IF login = <<>> THEN Out(EmptyResponse, rows, nid, 0)
    ELSE LET r == FirstByLogin(rows, ZeroUser, login, fault = 1)
         IN IF ~r.err /\ r.found THEN Out(EmptyResponse, rows, nid, 1)
            ELSE IF r.err THEN Out(errInternal, rows, nid, 1)
            ELSE LET c == Create(rows, nid, login, salted, fault = 2)
                 IN IF c.err THEN Out(errInternal, c.rows, c.seq, 2)
                    ELSE Out(SuccessResponse(r.user.ID), c.rows, c.seq, 2)

\* Register that takes every lookup error for "not found".
RegisterV2_AnyErrorIsNotFound(rows, nid, login, salted, fault) ==
    IF login = <<>> THEN Out(EmptyResponse, rows, nid, 0)
    ELSE LET r == FirstByLogin(rows, ZeroUser, login, fault = 1)
         IN IF ~r.err /\ r.found THEN Out(EmptyResponse, rows, nid, 1)
            ELSE LET c == Create(rows, nid, login, salted, fault = 2)
                 IN IF c.err THEN Out(errInternal, c.rows, c.seq, 2)
                    ELSE Out(SuccessResponse(c.user.ID), c.rows, c.seq, 2)

\* server.Register, revision v2
RegisterV2(rows, nid, login, salted, fault) ==
    IF login = <<>> THEN Out(EmptyResponse, rows, nid, 0)
    ELSE LET r == FirstByLogin(rows, ZeroUser, login, fault = 1)
         IN IF ~r.err /\ r.found THEN Out(EmptyResponse, rows, nid, 1)
            ELSE IF r.err THEN Out(errInternal, rows, nid, 1)
            ELSE LET c == Create(rows, nid, login, salted, fault = 2)
                 IN IF c.err THEN Out(errInternal, c.rows, c.seq, 2)
                    ELSE Out(SuccessResponse(c.user.ID), c.rows, c.seq, 2)

\* server.ChangeLogin, revision v1: no lookup of the new login
ChangeLoginV1(rows, nid, userId, oldSalted, newLogin, newSalted, fault) ==
    LET r == FirstById(rows, ZeroUser, userId, fault = 1)
    IN IF r.err THEN Out(errInternal, rows, nid, 1)
       ELSE IF ~r.found THEN Out(EmptyResponse, rows, nid, 1)
       ELSE IF oldSalted # r.user.Password THEN Out(EmptyResponse, rows, nid, 1)
       ELSE LET w == Updates(rows, r.user, newLogin, newSalted, fault = 2)
            IN IF w.err THEN Out(errInternal, w.rows, nid, 2)
               ELSE Out(SuccessResponse(0), w.rows, nid, 2)

\* ChangeLogin that writes the login only.
ChangeLoginV2_LoginOnly(rows, nid, userId, oldSalted, newLogin, newSalted, fault) ==
    IF newLogin = <<>> THEN Out(EmptyResponse, rows, nid, 0)
    ELSE
    LET r == FirstById(rows, ZeroUser, userId, fault = 1)
    IN IF r.err THEN Out(errInternal, rows, nid, 1)
       ELSE IF ~r.found THEN Out(EmptyResponse, rows, nid, 1)
       ELSE IF oldSalted # r.user.Password THEN Out(EmptyResponse, rows, nid, 1)
       ELSE LET l == FirstByLogin(rows, r.user, newLogin, fault = 2)
            IN IF ~l.err /\ l.found THEN Out(EmptyResponse, rows, nid, 2)
               ELSE IF l.err THEN Out(errInternal, rows, nid, 2)
               ELSE LET w == Updates(rows, l.user, newLogin, l.user.Password, fault = 3)
                    IN IF w.err THEN Out(errInternal, w.rows, nid, 3)
                       ELSE Out(SuccessResponse(0), w.rows, nid, 3)

\* server.ChangeLogin, revision v2: the second First reuses the user struct
\* the first one filled
ChangeLoginV2(rows, nid, userId, oldSalted, newLogin, newSalted, fault) ==
    IF newLogin = <<>> THEN Out(EmptyResponse, rows, nid, 0)
    ELSE
    LET r == FirstById(rows, ZeroUser, userId, fault = 1)
    IN IF r.err THEN Out(errInternal, rows, nid, 1)
       ELSE IF ~r.found THEN Out(EmptyResponse, rows, nid, 1)
       ELSE IF oldSalted # r.user.Password THEN Out(EmptyResponse, rows, nid, 1)
       ELSE LET l == FirstByLogin(rows, r.user, newLogin, fault = 2)
            IN IF ~l.err /\ l.found THEN Out(EmptyResponse, rows, nid, 2)
               ELSE IF l.err THEN Out(errInternal, rows, nid, 2)
               ELSE LET w == Updates(rows, l.user, newLogin, newSalted, fault = 3)
                    IN IF w.err THEN Out(errInternal, w.rows, nid, 3)
                       ELSE Out(SuccessResponse(0), w.rows, nid, 3)

\* ChangePassword that forgets to compare the old digest.
ChangePasswordOut_NoDigestCheck(rows, nid, userId, oldSalted, newSalted, fault) ==
    LET r == FirstById(rows, ZeroUser, userId, fault = 1)
    IN IF r.err THEN Out(errInternal, rows, nid, 1)
       ELSE IF ~r.found THEN Out(EmptyResponse, rows, nid, 1)
       ELSE LET w == Update(rows, r.user, newSalted, fault = 2)
            IN IF w.err THEN Out(errInternal, w.rows, nid, 2)
               ELSE Out(SuccessResponse(0), w.rows, nid, 2)

\* server.ChangePassword (the same in both revisions)
ChangePasswordOut(rows, nid, userId, oldSalted, newSalted, fault) ==
    LET r == FirstById(rows, ZeroUser, userId, fault = 1)
    IN IF r.err THEN Out(errInternal, rows, nid, 1)
       ELSE IF ~r.found THEN Out(EmptyResponse, rows, nid, 1)
       ELSE IF oldSalted # r.user.Password THEN Out(EmptyResponse, rows, nid, 1)
       ELSE LET w == Update(rows, r.user, newSalted, fault = 2)
            IN IF w.err THEN Out(errInternal, w.rows, nid, 2)
               ELSE Out(SuccessResponse(0), w.rows, nid, 2)

\* Delete that reports failure when no row was affected.
DeleteOut_FalseWhenAbsent(rows, nid, id, fault) ==
    LET d == DeleteRow(rows, id, fault = 1)
    IN IF d.err THEN Out(errInternal, d.rows, nid, 1)
       ELSE IF d.rows = rows THEN Out(EmptyResponse, d.rows, nid, 1)
       ELSE Out(SuccessResponse(0), d.rows, nid, 1)

\* server.Delete (the same in both revisions)
DeleteOut(rows, nid, id, fault) ==
    LET d == DeleteRow(rows, id, fault = 1)
    IN IF d.err THEN Out(errInternal, d.rows, nid, 1)
       ELSE Out(SuccessResponse(0), d.rows, nid, 1)

\* GetUsers that takes a missing id for a failure.
GetUsersOut_ErrOnMissing(rows, nid, ids, listed, fault) ==
    LET f == FindByIds(rows, ids, listed, fault = 1)
    IN IF f.err \/ Len(f.users) # Cardinality(ids)
       THEN Out(errInternalUsers, rows, nid, 1)
       ELSE Out(UsersResponse(convertUsersFromModel(f.users), 0), rows, nid, 1)

\* server.GetUsers (the same in both revisions); listed is the order in
\* which the store returns the rows found
GetUsersOut(rows, nid, ids, listed, fault) ==
    LET f == FindByIds(rows, ids, listed, fault = 1)
    IN IF f.err THEN Out(errInternalUsers, rows, nid, 1)
       ELSE Out(UsersResponse(convertUsersFromModel(f.users), 0), rows, nid, 1)

\* server.ListUsers, revision v1: the count ignores the filter
ListUsersV1(rows, nid, start, end, filter, fault) ==
    LET c == Count(rows, fault = 1)
    IN IF c.err THEN Out(errInternalUsers, rows, nid, 1)
       ELSE IF c.total = 0 THEN Out(EmptyUsers, rows, nid, 1)
       ELSE LET f == FindPage(Matching(rows, filter), start, end, fault = 2)
            IN IF f.err THEN Out(errInternalUsers, rows, nid, 2)
               ELSE Out(UsersResponse(convertUsersFromModel(f.users), c.total),
                        rows, nid, 2)

\* server.ListUsers, revision v2: the count carries the LIKE condition
ListUsersV2(rows, nid, start, end, filter, fault) ==
    LET c == Count(Matching(rows, filter), fault = 1)
    IN IF c.err THEN Out(errInternalUsers, rows, nid, 1)
       ELSE IF c.total = 0 THEN Out(EmptyUsers, rows, nid, 1)
       ELSE LET f == FindPage(Matching(rows, filter), start, end, fault = 2)
            IN IF f.err THEN Out(errInternalUsers, rows, nid, 2)
               ELSE Out(UsersResponse(convertUsersFromModel(f.users), c.total),
                        rows, nid, 2)

\* -------------------------------------------------------------- actions
\* The table starts empty (AutoMigrate on a fresh database). pre, last and
\* prev are the record of an observer who lets a run go unwatched for a
\* while, then records one call and, after it, one follow-up call; the run is
\* not followed further.
Init ==
    /\ revision \in Revisions
    /\ users = {}
    /\ seq = 1
    /\ pre = {}
    /\ last = NoCall
    /\ prev = NoCall
    /\ prepre = {}
    /\ procs = [p \in Procs |-> Idle]

Mutations == {"Register", "ChangeLogin", "ChangePassword", "Delete"}

\* The login a successful call a leaves its user with, in table rows.
LoginAfter(a, rows) ==
    IF a.op = "Register" THEN {a.Login}
    ELSE {u.Login : u \in {v \in rows : v.ID = a.UserId}}

\* The observer has recorded nothing yet.
Unwatched == last.op = "none"

\* The observer has recorded one call that changed a user with no store
\* fault and waits for the follow-up.
AwaitsFollowUp ==
    /\ prev.op = "none"
    /\ last.op \in Mutations /\ last.fault = 0 /\ last.resp.Success

\* The login of the row a successful Delete removed.
DeletedLogins == {u.Login : u \in {v \in pre : v.ID = last.UserId}}

\* Logins a Verify is followed for: any while unwatched, the changed user's
\* login as follow-up of a Register, ChangeLogin or ChangePassword, the
\* removed user's login as follow-up of a Delete.
VerifyLogins ==
    IF Unwatched THEN Logins
    ELSE IF AwaitsFollowUp /\ last.op # "Delete" THEN LoginAfter(last, users)
    ELSE IF AwaitsFollowUp THEN DeletedLogins
    ELSE {}

\* Logins a Register is followed for: any while unwatched, the removed
\* user's login as follow-up of a Delete.
RegisterLogins ==
    IF Unwatched THEN Logins
    ELSE IF AwaitsFollowUp /\ last.op = "Delete" THEN DeletedLogins
    ELSE {}

\* Id sets a GetUsers is followed for: any while unwatched, those with the
\* removed id as follow-up of a Delete.
GetUsersIds ==
    IF Unwatched THEN SUBSET Ids
    ELSE IF AwaitsFollowUp /\ last.op = "Delete"
         THEN {ids \in SUBSET Ids : last.UserId \in ids}
    ELSE {}

\* Ids a Delete is followed for: any while unwatched, the same id as
\* follow-up of a Delete.
DeleteIds ==
    IF Unwatched THEN Ids
    ELSE IF AwaitsFollowUp /\ last.op = "Delete" THEN {last.UserId}
    ELSE {}

\* One completed call: the table and the sequence move to the handler's
\* outcome. An injected fault is the number of the store call that fails; it
\* must be a call the handler issues. While unwatched the call is either
\* left unrecorded or recorded as the first call; a follow-up (with no store
\* fault) is recorded as the second.
Complete(call, out) ==
    /\ out.seq <= MaxId + 1
    /\ call.fault <= out.calls
    /\ users' = out.rows
    /\ seq' = out.seq
    /\ \/ /\ Unwatched
          /\ UNCHANGED <<pre, last, prev, prepre>>
       \/ /\ Unwatched
          /\ pre' = users
          /\ last' = [call EXCEPT !.resp = out.resp, !.calls = out.calls]
          /\ prev' = NoCall
          /\ prepre' = {}
       \/ /\ ~Unwatched
          /\ call.fault = 0
          /\ pre' = users
          /\ last' = [call EXCEPT !.resp = out.resp, !.calls = out.calls]
          /\ prev' = last
          /\ prepre' = pre
    /\ UNCHANGED <<revision, procs>>

Verify ==
    \E login \in VerifyLogins, salted \in Digests, fault \in 0..1 :
        Complete([NoCall EXCEPT !.op = "Verify", !.Login = login, !.Salted = salted,
                                !.fault = fault],
                 VerifyOut(users, seq, login, salted, fault))

Register ==
    \E login \in RegisterLogins, salted \in Digests, fault \in 0..2 :
        Complete([NoCall EXCEPT !.op = "Register", !.Login = login, !.Salted = salted,
                                !.fault = fault],
                 IF revision = "v1" THEN RegisterV1(users, seq, login, salted, fault)
                 ELSE RegisterV2(users, seq, login, salted, fault))

ChangeLogin ==
    /\ Unwatched
    /\ \E userId \in Ids, oldSalted \in Digests, newLogin \in Logins,
          newSalted \in Digests, fault \in 0..3 :
        Complete([NoCall EXCEPT !.op = "ChangeLogin", !.UserId = userId,
                                !.Salted = oldSalted, !.NewLogin = newLogin,
                                !.NewSalted = newSalted, !.fault = fault],
                 IF revision = "v1"
                 THEN ChangeLoginV1(users, seq, userId, oldSalted, newLogin, newSalted, fault)
                 ELSE ChangeLoginV2(users, seq, userId, oldSalted, newLogin, newSalted, fault))

ChangePassword ==
    /\ Unwatched
    /\ \E userId \in Ids, oldSalted \in Digests, newSalted \in Digests, fault \in 0..2 :
        Complete([NoCall EXCEPT !.op = "ChangePassword", !.UserId = userId,
                                !.Salted = oldSalted, !.NewSalted = newSalted,
                                !.fault = fault],
                 ChangePasswordOut(users, seq, userId, oldSalted, newSalted, fault))

Delete ==
    \E id \in DeleteIds, fault \in 0..1 :
        Complete([NoCall EXCEPT !.op = "Delete", !.UserId = id, !.fault = fault],
                 DeleteOut(users, seq, id, fault))

GetUsers ==
    \E ids \in GetUsersIds, fault \in 0..1 :
        \E listed \in Arrangements(FoundByIds(users, ids)) :
            Complete([NoCall EXCEPT !.op = "GetUsers", !.Ids = ids, !.fault = fault],
                     GetUsersOut(users, seq, ids, listed, fault))

ListUsers ==
    /\ Unwatched
    /\ \E start \in 0..MaxId, end \in 0..MaxId, filter \in Logins, fault \in 0..2 :
        Complete([NoCall EXCEPT !.op = "ListUsers", !.Start = start, !.End = end,
                                !.Filter = filter, !.fault = fault],
                 IF revision = "v1"
                 THEN ListUsersV1(users, seq, start, end, filter, fault)
                 ELSE ListUsersV2(users, seq, start, end, filter, fault))

Next ==
    \/ Verify \/ Register \/ ChangeLogin \/ ChangePassword \/ Delete
    \/ GetUsers \/ ListUsers

Spec == Init /\ [][Next]_vars

TypeOK ==
    /\ revision \in Revisions
    /\ seq \in 1..(MaxId + 1)
    /\ \A u \in users : u.ID \in Ids /\ u.Login \in Logins /\ u.Password \in Digests
    /\ \A u, v \in users : u.ID = v.ID => u = v

\* ------------------------------------------------- overlapping calls
\* The handlers again, one store call per step, for calls that overlap. The
\* store answers every call; the only store error is a write it rejects.
Finish(c, resp) == [c EXCEPT !.pc = "done", !.resp = resp]

\* server.Register up to its lookup
RegisterLookup(c, rows) ==
    LET r == FirstByLogin(rows, ZeroUser, c.Login, FALSE)
    IN IF r.found THEN Finish(c, EmptyResponse) ELSE [c EXCEPT !.pc = "write"]

\* Register that answers success=false when the store rejects the create.
RegisterCreate_ConflictIsFalse(c, rows, nid) ==
    LET w == Create(rows, nid, c.Login, c.Salted, FALSE)
    IN [proc |-> IF w.err THEN Finish([c EXCEPT !.wrote = TRUE], EmptyResponse)
                 ELSE Finish([c EXCEPT !.wrote = TRUE], SuccessResponse(w.user.ID)),
        rows |-> w.rows, seq |-> w.seq]

\* server.Register from its Create on
RegisterCreate(c, rows, nid) ==
    LET w == Create(rows, nid, c.Login, c.Salted, FALSE)
    IN [proc |-> IF w.err THEN Finish([c EXCEPT !.wrote = TRUE], errInternal)
                 ELSE Finish([c EXCEPT !.wrote = TRUE], SuccessResponse(w.user.ID)),
        rows |-> w.rows, seq |-> w.seq]

\* server.ChangeLogin and server.ChangePassword up to the digest comparison
ChangeLookup(c, rows, rev) ==
    LET r == FirstById(rows, ZeroUser, c.UserId, FALSE)
    IN IF ~r.found THEN Finish(c, EmptyResponse)
       ELSE IF c.Salted # r.user.Password THEN Finish(c, EmptyResponse)
       ELSE [c EXCEPT !.user = r.user,
                      !.pc = IF c.op = "ChangeLogin" /\ rev = "v2"
                             THEN "lookupLogin" ELSE "write"]

\* server.ChangeLogin, revision v2: the lookup of the new login
ChangeLoginLookup(c, rows) ==
    LET l == FirstByLogin(rows, c.user, c.NewLogin, FALSE)
    IN IF l.found THEN Finish(c, EmptyResponse)
       ELSE [c EXCEPT !.user = l.user, !.pc = "write"]

\* The write hits a row that is still there with the digest of the request.
Hits(c, rows) == \E u \in rows : u.ID = c.user.ID /\ u.Password = c.Salted

\* server.ChangeLogin from its Updates on
ChangeLoginUpdate(c, rows) ==
    LET w == Updates(rows, c.user, c.NewLogin, c.NewSalted, FALSE)
        d == [c EXCEPT !.wrote = TRUE, !.hit = Hits(c, rows)]
    IN [proc |-> IF w.err THEN Finish(d, errInternal) ELSE Finish(d, SuccessResponse(0)),
        rows |-> w.rows]

\* server.ChangePassword from its Update on
ChangePasswordUpdate(c, rows) ==
    LET w == Update(rows, c.user, c.NewSalted, FALSE)
        d == [c EXCEPT !.wrote = TRUE, !.hit = Hits(c, rows)]
    IN [proc |-> IF w.err THEN Finish(d, errInternal) ELSE Finish(d, SuccessResponse(0)),
        rows |-> w.rows]

\* server.Delete
DeleteStep(c, rows) ==
    LET w == DeleteRow(rows, c.UserId, FALSE)
    IN [proc |-> IF w.err THEN Finish([c EXCEPT !.wrote = TRUE], errInternal)
                 ELSE Finish([c EXCEPT !.wrote = TRUE], SuccessResponse(0)),
        rows |-> w.rows]

\* Tables the overlapping calls start from: the first k non-empty logins
\* registered one after the other with the empty digest.
SeedRows(k) == {[ID |-> i, Login |-> LoginTable[i + 1], Password |-> 0] : i \in 1..k}

InitConc ==
    /\ revision \in Revisions
    /\ \E k \in 0..MaxId :
        /\ k + 1 <= NumLogins
        /\ users = SeedRows(k)
        /\ seq = k + 1
    /\ pre = {}
    /\ last = NoCall
    /\ prev = NoCall
    /\ prepre = {}
    /\ procs = [p \in Procs |-> Idle]

ConcFrame == UNCHANGED <<revision, pre, last, prev, prepre>>

\* A caller sends a request; the handler runs up to its first store call
\* (revision v2 answers an empty login at once).
Call ==
    \E p \in Procs :
        /\ procs[p].pc = "idle"
        /\ \/ \E login \in Logins, salted \in Digests :
                LET c == [Idle EXCEPT !.op = "Register", !.Login = login,
                                      !.Salted = salted]
                IN procs' = [procs EXCEPT ![p] =
                                IF revision = "v2" /\ login = <<>>
                                THEN Finish(c, EmptyResponse)
                                ELSE [c EXCEPT !.pc = "lookup"]]
           \/ \E userId \in Ids, oldSalted \in Digests, newLogin \in Logins,
                 newSalted \in Digests :
                LET c == [Idle EXCEPT !.op = "ChangeLogin", !.UserId = userId,
                                      !.Salted = oldSalted, !.NewLogin = newLogin,
                                      !.NewSalted = newSalted]
                IN procs' = [procs EXCEPT ![p] =
                                IF revision = "v2" /\ newLogin = <<>>
                                THEN Finish(c, EmptyResponse)
                                ELSE [c EXCEPT !.pc = "lookup"]]
           \/ \E userId \in Ids, oldSalted \in Digests, newSalted \in Digests :
                procs' = [procs EXCEPT ![p] =
                             [Idle EXCEPT !.op = "ChangePassword", !.UserId = userId,
                                          !.Salted = oldSalted, !.NewSalted = newSalted,
                                          !.pc = "lookup"]]
           \/ \E id \in Ids :
                procs' = [procs EXCEPT ![p] =
                             [Idle EXCEPT !.op = "Delete", !.UserId = id, !.pc = "write"]]
        /\ UNCHANGED <<users, seq>>
        /\ ConcFrame

\* The first lookup of a Register, ChangeLogin or ChangePassword
Lookup ==
    \E p \in Procs :
        /\ procs[p].pc = "lookup"
        /\ procs' = [procs EXCEPT ![p] =
                        IF procs[p].op = "Register" THEN RegisterLookup(procs[p], users)
                        ELSE ChangeLookup(procs[p], users, revision)]
        /\ UNCHANGED <<users, seq>>
        /\ ConcFrame

\* The lookup of the new login in the ChangeLogin of revision v2
LookupLogin ==
    \E p \in Procs :
        /\ procs[p].pc = "lookupLogin"
        /\ procs' = [procs EXCEPT ![p] = ChangeLoginLookup(procs[p], users)]
        /\ UNCHANGED <<users, seq>>
        /\ ConcFrame

\* The write of a call and its response
Write ==
    \E p \in Procs :
        /\ procs[p].pc = "write"
        /\ \/ /\ procs[p].op = "Register"
              /\ seq <= MaxId
              /\ LET w == RegisterCreate(procs[p], users, seq)
                 IN /\ procs' = [procs EXCEPT ![p] = w.proc]
                    /\ users' = w.rows
                    /\ seq' = w.seq
           \/ /\ procs[p].op # "Register"
              /\ LET w == IF procs[p].op = "ChangeLogin"
                          THEN ChangeLoginUpdate(procs[p], users)
                          ELSE IF procs[p].op = "ChangePassword"
                          THEN ChangePasswordUpdate(procs[p], users)
                          ELSE DeleteStep(procs[p], users)
                 IN /\ procs' = [procs EXCEPT ![p] = w.proc]
                    /\ users' = w.rows
              /\ UNCHANGED seq
        /\ ConcFrame

NextConc == Call \/ Lookup \/ LookupLogin \/ Write

SpecConc == InitConc /\ [][NextConc]_vars

\* ---------------------------------------------------------- properties
\* Helpers of the properties: the rows of a table with a login or an id.
WithLogin(rows, login) == {u \in rows : u.Login = login}
WithId(rows, id) == {u \in rows : u.ID = id}
IdsOf(rows) == {u.ID : u \in rows}

\* C1: with the store answering, Verify(login, digest) returns success=true
\* with the row's id exactly when a row with that login exists and its stored
\* digest equals digest; otherwise success=false with no id. The table is
\* left as it was.
C1_VerifyIffMatch ==
    (last.op = "Verify" /\ last.fault = 0) =>
        /\ users = pre
        /\ ~last.resp.Err
        /\ last.resp.Success <=>
               \E u \in WithLogin(pre, last.Login) : u.Password = last.Salted
        /\ last.resp.Success =>
               \E u \in WithLogin(pre, last.Login) :
                   u.Password = last.Salted /\ last.resp.Id = u.ID
        /\ ~last.resp.Success => last.resp = EmptyResponse

\* Verify answered true for one of two rows, the other row has another digest.
C1_Witness ==
    /\ last.op = "Verify" /\ last.fault = 0 /\ last.resp.Success
    /\ \E u \in users : u.Login # last.Login /\ u.Password # last.Salted

\* C2: Register(login, d) with a non-empty login no row holds returns
\* success=true with an id no row of the table had, and creates the row; a
\* Verify(login, d) right after it returns success=true with that id.
C2_RegisterThenVerify ==
    /\ (last.op = "Register" /\ last.fault = 0 /\ last.Login # <<>>
            /\ WithLogin(pre, last.Login) = {}) =>
        /\ last.resp.Success /\ ~last.resp.Err
        /\ last.resp.Id \notin IdsOf(pre)
        /\ users = pre \cup {[ID |-> last.resp.Id, Login |-> last.Login,
                              Password |-> last.Salted]}
    /\ (last.op = "Verify" /\ prev.op = "Register" /\ prev.Login # <<>>
            /\ last.Login = prev.Login /\ last.Salted = prev.Salted) =>
        last.resp = SuccessResponse(prev.resp.Id)

\* A Verify right after a Register that added a second row.
C2_Witness ==
    /\ last.op = "Verify" /\ prev.op = "Register" /\ prev.Login # <<>>
    /\ last.Login = prev.Login /\ last.Salted = prev.Salted
    /\ last.resp.Success
    /\ Cardinality(users) = 2

\* C3: Register(login, d) while a row with that login exists returns
\* success=false, creates no row and changes none; one row keeps the login.
C3_RegisterTakenLogin ==
    (last.op = "Register" /\ last.fault = 0 /\ WithLogin(pre, last.Login) # {}) =>
        /\ last.resp = EmptyResponse
        /\ users = pre
        /\ Cardinality(WithLogin(users, last.Login)) = 1

\* Register refused a taken login with another digest than the stored one.
C3_Witness ==
    /\ last.op = "Register" /\ last.fault = 0
    /\ \E u \in WithLogin(pre, last.Login) : u.Password # last.Salted
    /\ ~last.resp.Success

\* C4: in every state reached from the empty table by Register, ChangeLogin,
\* ChangePassword and Delete calls run one after the other, no two rows hold
\* the same login.
C4_LoginUnique ==
    \A u, v \in users : u.Login = v.Login => u = v

\* A ChangeLogin towards the login of another row was attempted and two rows
\* are in the table.
C4_Witness ==
    /\ last.op = "ChangeLogin" /\ last.fault = 0
    /\ \E u \in pre : u.ID = last.UserId /\ u.Password = last.Salted
    /\ \E v \in pre : v.ID # last.UserId /\ v.Login = last.NewLogin
    /\ Cardinality(users) = 2

\* C5: ChangeLogin(userId, oldDigest, newLogin) on an existing userId with the
\* matching oldDigest returns success=false and leaves the table unchanged
\* when newLogin is the login of a row with another id.
C5_ChangeLoginTaken ==
    (/\ last.op = "ChangeLogin" /\ last.fault = 0
     /\ \E u \in pre : u.ID = last.UserId /\ u.Password = last.Salted
     /\ \E v \in pre : v.ID # last.UserId /\ v.Login = last.NewLogin) =>
        (last.resp = EmptyResponse /\ users = pre)

\* C6: ChangeLogin and ChangePassword on an existing userId with an oldDigest
\* that differs from the stored digest return success=false and leave every
\* row as it was.
C6_WrongOldDigest ==
    (/\ last.op \in {"ChangeLogin", "ChangePassword"} /\ last.fault = 0
     /\ \E u \in pre : u.ID = last.UserId /\ u.Password # last.Salted) =>
        (last.resp = EmptyResponse /\ users = pre)

\* ChangeLogin towards a free, non-empty login was refused for its digest.
C6_Witness ==
    /\ last.op = "ChangeLogin" /\ last.fault = 0
    /\ \E u \in pre : u.ID = last.UserId /\ u.Password # last.Salted
    /\ last.NewLogin # <<>> /\ WithLogin(pre, last.NewLogin) = {}
    /\ last.NewSalted # last.Salted
    /\ ~last.resp.Success

\* C7: Register with the empty login returns success=false, never an error,
\* and creates no row, whatever the digest, the table and the store's state.
C7_RegisterEmptyLogin ==
    (last.op = "Register" /\ last.Login = <<>>) =>
        (last.resp = EmptyResponse /\ users = pre)

\* C8: a successful ChangePassword(userId, oldDigest, newDigest) sets the
\* stored digest of row userId to newDigest and changes nothing else; a
\* Verify of the row's login right after it returns success=true with userId
\* for newDigest and success=false for an oldDigest other than newDigest.
C8_ChangePasswordEffect ==
    /\ (last.op = "ChangePassword" /\ last.resp.Success) =>
        /\ WithId(pre, last.UserId) # {}
        /\ users = {IF u.ID = last.UserId
                    THEN [u EXCEPT !.Password = last.NewSalted] ELSE u : u \in pre}
    /\ (last.op = "Verify" /\ prev.op = "ChangePassword") =>
        /\ last.Salted = prev.NewSalted => last.resp = SuccessResponse(prev.UserId)
        /\ (last.Salted = prev.Salted /\ prev.Salted # prev.NewSalted) =>
               last.resp = EmptyResponse

\* A Verify with the old digest right after a ChangePassword to another one,
\* with a second row in the table.
C8_Witness ==
    /\ last.op = "Verify" /\ prev.op = "ChangePassword"
    /\ last.Salted = prev.Salted /\ prev.Salted # prev.NewSalted
    /\ ~last.resp.Success
    /\ Cardinality(users) = 2

\* C9 as stated: a successful ChangeLogin changes only the login of row
\* userId, id and stored digest stay, so Verify(newLogin, oldDigest) right
\* after it returns success=true with userId, and every other row is as before.
C9_ChangeLoginOnlyLogin ==
    /\ (last.op = "ChangeLogin" /\ last.resp.Success) =>
        users = {IF u.ID = last.UserId
                 THEN [u EXCEPT !.Login = last.NewLogin] ELSE u : u \in pre}
    /\ (last.op = "Verify" /\ prev.op = "ChangeLogin"
            /\ last.Login = prev.NewLogin /\ last.Salted = prev.Salted) =>
        last.resp = SuccessResponse(prev.UserId)

\* C9 amended: a successful ChangeLogin(userId, oldDigest, newLogin) with new
\* digest NewSalted sets the login of row userId to newLogin and its stored
\* digest to NewSalted; the id stays and every other row is as before; a
\* Verify(newLogin, NewSalted) right after it returns success=true with
\* userId, and a Verify(newLogin, oldDigest) is refused when the two differ.
C9_ChangeLoginEffect ==
    /\ (last.op = "ChangeLogin" /\ last.resp.Success) =>
        /\ WithId(pre, last.UserId) # {}
        /\ users = {IF u.ID = last.UserId
                    THEN [u EXCEPT !.Login = last.NewLogin,
                                   !.Password = last.NewSalted]
                    ELSE u : u \in pre}
    /\ (last.op = "Verify" /\ prev.op = "ChangeLogin" /\ last.Login = prev.NewLogin) =>
        /\ last.Salted = prev.NewSalted => last.resp = SuccessResponse(prev.UserId)
        /\ last.Salted # prev.NewSalted => last.resp = EmptyResponse

\* A Verify of the new login with the new digest right after a ChangeLogin
\* that changed both, with a second row in the table.
C9_Witness ==
    /\ last.op = "Verify" /\ prev.op = "ChangeLogin"
    /\ last.Login = prev.NewLogin /\ last.Salted = prev.NewSalted
    /\ prev.NewSalted # prev.Salted
    /\ last.resp.Success
    /\ Cardinality(users) = 2

\* C10: with the store answering, Delete(userId) returns success=true whether
\* or not the row exists and removes nothing but row userId, so the table is
\* unchanged when the row is absent; a second Delete(userId) right after the
\* first leaves the same table and gives the same response.
C10_DeleteIdempotent ==
    /\ (last.op = "Delete" /\ last.fault = 0) =>
        /\ last.resp = SuccessResponse(0)
        /\ users = {u \in pre : u.ID # last.UserId}
        /\ WithId(pre, last.UserId) = {} => users = pre
    /\ (last.op = "Delete" /\ prev.op = "Delete" /\ last.UserId = prev.UserId) =>
        /\ users = pre
        /\ last.resp = prev.resp

\* The second of two Delete calls of the same id, another row still there.
C10_Witness ==
    /\ last.op = "Delete" /\ prev.op = "Delete" /\ last.UserId = prev.UserId
    /\ last.resp.Success
    /\ users # {}

\* Helpers of the list properties: the entries of an answer and the number of
\* matching rows that sort before a login.
Entries(list) == {list[i] : i \in 1..Len(list)}
Rank(rows, login) == Cardinality({u \in rows : LoginLess(u.Login, login)})
AsPbUsers(rows) == {[Id |-> u.ID, Login |-> u.Login] : u \in rows}

\* C11: a Delete(userId) of an existing row removes that row and nothing
\* else; right after it a GetUsers with userId among its ids does not return
\* it, a Verify of the removed row's login is refused whatever the digest,
\* and a Register of that login succeeds.
C11_DeleteRemovesRow ==
    /\ (last.op = "Delete" /\ last.fault = 0 /\ WithId(pre, last.UserId) # {}) =>
        /\ users = pre \ WithId(pre, last.UserId)
        /\ WithId(users, last.UserId) = {}
    /\ (prev.op = "Delete" /\ WithId(prepre, prev.UserId) # {}) =>
        \A d \in WithId(prepre, prev.UserId) :
            /\ (last.op = "GetUsers" /\ prev.UserId \in last.Ids) =>
                   /\ ~last.resp.Err
                   /\ \A e \in Entries(last.resp.List) : e.Id # prev.UserId
            /\ (last.op = "Verify" /\ last.Login = d.Login) =>
                   last.resp = EmptyResponse
            /\ (last.op = "Register" /\ last.Login = d.Login) =>
                   /\ last.resp.Success
                   /\ \E u \in users : u.Login = d.Login /\ u.ID = last.resp.Id

\* A Verify with the login and the digest of a row just removed, another row
\* still in the table.
C11_Witness ==
    /\ prev.op = "Delete" /\ last.op = "Verify"
    /\ \E d \in WithId(prepre, prev.UserId) :
           last.Login = d.Login /\ last.Salted = d.Password
    /\ ~last.resp.Success
    /\ users # {}

\* C12: with the store answering, the total of ListUsers is the number of
\* rows whose login contains the filter (all rows for the empty filter),
\* whatever start and end; it is 0, with an empty list, exactly when no row
\* matches.
C12_TotalIsMatchCount ==
    (last.op = "ListUsers" /\ last.fault = 0) =>
        LET n == Cardinality({u \in pre : last.Filter = <<>> \/ Like(u.Login, last.Filter)})
        IN /\ ~last.resp.Err
           /\ last.resp.Total = n
           /\ n = 0 => last.resp.List = <<>>

C14_GetUsersSubset ==
    (last.op = "GetUsers" /\ last.fault = 0) =>
        /\ ~last.resp.Err
        /\ Entries(last.resp.List) = AsPbUsers({u \in pre : u.ID \in last.Ids})
        /\ Len(last.resp.List) = Cardinality(last.Ids \cap IdsOf(pre))
        /\ last.Ids = {} => last.resp.List = <<>>
        /\ users = pre

\* A GetUsers that asked for an id with a row and an id without one.
C14_Witness ==
    /\ last.op = "GetUsers" /\ last.fault = 0
    /\ last.Ids \cap IdsOf(pre) # {} /\ last.Ids \ IdsOf(pre) # {}
    /\ Len(last.resp.List) = 1
    /\ Cardinality(pre) = 1

\* C15: when a store call of an operation fails with an error other than
\* not-found (an injected store failure, or a write the store rejects), the
\* operation returns the internal error with no response value and the table
\* is the same as before the operation.
C15_StoreFailure ==
    LET listOp == last.op \in {"GetUsers", "ListUsers"}
    IN last.op # "none" =>
        /\ last.fault > 0 => last.resp.Err
        /\ last.resp.Err =>
            /\ users = pre
            /\ listOp => last.resp = errInternalUsers
            /\ ~listOp => last.resp = errInternal

\* The update of a ChangeLogin failed after its lookups had answered.
C15_Witness ==
    /\ last.op = "ChangeLogin" /\ last.fault > 1 /\ last.fault = last.calls
    /\ last.resp.Err
    /\ \E u \in pre : u.ID = last.UserId /\ u.Login # last.NewLogin

\* C16: Verify answers a login that has a row with another digest exactly as
\* it answers the same request on the table without that row: success=false,
\* no id, no error.
C16_VerifyNoEnumeration ==
    (/\ last.op = "Verify" /\ last.fault = 0
     /\ \E u \in WithLogin(pre, last.Login) : u.Password # last.Salted) =>
        /\ last.resp = VerifyOut(pre \ WithLogin(pre, last.Login), seq,
                                 last.Login, last.Salted, 0).resp
        /\ last.resp = EmptyResponse

\* Verify refused a wrong digest for a login that has a row.
C16_Witness ==
    /\ last.op = "Verify" /\ last.fault = 0
    /\ \E u \in WithLogin(pre, last.Login) : u.Password # last.Salted
    /\ ~last.resp.Success
    /\ Cardinality(pre) = 2

\* C18: the set of row ids changes only by Register, which adds exactly one
\* new id when it succeeds, and by Delete, which removes at most the given
\* id; Verify, GetUsers and ListUsers leave the table unchanged; ChangeLogin
\* and ChangePassword add no row, remove no row and change no id.
C18_IdsFrame ==
    /\ last.op \in {"Verify", "GetUsers", "ListUsers"} => users = pre
    /\ last.op \in {"ChangeLogin", "ChangePassword"} =>
        /\ IdsOf(users) = IdsOf(pre)
        /\ Cardinality(users) = Cardinality(pre)
    /\ last.op = "Register" =>
        IF last.resp.Success
        THEN /\ last.resp.Id \notin IdsOf(pre)
             /\ IdsOf(users) = IdsOf(pre) \cup {last.resp.Id}
             /\ pre \subseteq users
        ELSE users = pre
    /\ last.op = "Delete" =>
        /\ users \subseteq pre
        /\ IdsOf(pre) \ IdsOf(users) \subseteq {last.UserId}

\* A Delete of one of two rows.
C18_Witness ==
    /\ last.op = "Delete" /\ last.resp.Success
    /\ Cardinality(pre) = 2 /\ Cardinality(users) = 1

\* C19 as stated: every operation issues between 0 and 2 store calls on every
\* path and issues no store call after one that failed.
C19_AtMostTwoCalls ==
    last.op # "none" =>
        /\ last.calls \in 0..2
        /\ last.fault > 0 => last.calls = last.fault

\* C19 amended: every operation issues between 0 and 3 store calls on every
\* path, 3 only in the ChangeLogin of revision v2 (lookup by id, lookup by
\* login, update) and at most 2 everywhere else, and issues no store call
\* after one that failed.
C19_AtMostThreeCalls ==
    last.op # "none" =>
        /\ last.calls \in 0..3
        /\ last.calls = 3 => (last.op = "ChangeLogin" /\ revision = "v2")
        /\ last.fault > 0 => last.calls = last.fault

\* A ChangeLogin of revision v2 that went through its three store calls.
C19_Witness ==
    /\ last.op = "ChangeLogin" /\ revision = "v2"
    /\ last.calls = 3 /\ last.resp.Success

\* C17: two overlapping Register calls of the same unused, non-empty login can
\* both get not-found from their lookup before either creates, and then both
\* issue the create; nothing in the handlers keeps the second create back:
\* one row holds the login only because the store rejects the second create,
\* and that call ends with the internal error.
C17_RegisterRace ==
    \A p, q \in Procs :
        (/\ p # q
         /\ procs[p].op = "Register" /\ procs[q].op = "Register"
         /\ procs[p].Login = procs[q].Login
         /\ procs[p].pc = "done" /\ procs[p].wrote
         /\ procs[q].pc = "done" /\ procs[q].wrote) =>
            /\ Cardinality(WithLogin(users, procs[p].Login)) = 1
            /\ procs[p].resp.Success # procs[q].resp.Success
            /\ ~procs[p].resp.Success => procs[p].resp = errInternal

\* Both lookups said not-found before either create, both creates were
\* issued: one call got the row, the other the internal error.
C17_Witness ==
    /\ procs["p1"].op = "Register" /\ procs["p2"].op = "Register"
    /\ procs["p1"].Login = procs["p2"].Login /\ procs["p1"].Login # <<>>
    /\ procs["p1"].pc = "done" /\ procs["p1"].wrote
    /\ procs["p2"].pc = "done" /\ procs["p2"].wrote
    /\ procs["p1"].resp.Success /\ procs["p2"].resp.Err
    /\ procs["p1"].Salted # procs["p2"].Salted

\* C20: in every interleaving of overlapping calls, a ChangePassword or
\* ChangeLogin that returns success=true has applied its update to a row
\* userId that still existed and still held oldDigest at the moment of the
\* write.
C20_SuccessMeansApplied ==
    \A p \in Procs :
        (/\ procs[p].op \in {"ChangeLogin", "ChangePassword"}
         /\ procs[p].pc = "done" /\ procs[p].resp.Success) =>
            procs[p].hit
====
